---- MODULE Spec2Model ----
(***************************************************************************)
(* League standings manager (src/app.py): two Google-Sheets worksheets     *)
(* ("leagues", "raw_results"), UID normalisation of an uploaded batch,     *)
(* append of the batch to the raw results, and the standings of the        *)
(* selected league.                                                        *)
(*                                                                         *)
(* Strings are sequences of one-character strings, so that strip(),        *)
(* concatenation and the substring test `"__" in u` are computed as the    *)
(* code computes them.  A missing value (pandas NaN, Python None) is a     *)
(* value of its own.  The columns TeamPlayers1Username and Rank of a       *)
(* result row are copied verbatim by every operation and read by none;     *)
(* they are left out of the row records.                                   *)
(***************************************************************************)
EXTENDS Integers, Sequences, FiniteSets, TLC

VARIABLES
    leagues,    \* column 1 of worksheet "leagues" below its header
    results,    \* rows of worksheet "raw_results" below its header (cells)
    selected,   \* value of the sidebar selectbox (selected_league)
    standings,  \* the standings frame shown by the last script run
    last,       \* the handler that ran last: its name, input and outcome
    swapped,    \* raw_results of the run ingesting the same two batches swapped
    pc,         \* per session: position inside append_results
    local       \* per session: the frame append_results is about to save

vars == <<leagues, results, selected, standings, last, swapped, pc, local>>

----------------------------------------------------------------------------
(* Bounds of the model *)

MaxBatchLen == 2
MaxStored == 3
MaxLeagues == 3
MaxRaceLen == 1

----------------------------------------------------------------------------
(* Values and strings *)

NaN == <<"NaN">>
None == <<"None">>
Sep == <<"_", "_">>

notna(v) == v # NaN

RECURSIVE lstrip(_)
lstrip(s) == IF s # <<>> /\ Head(s) = " " THEN lstrip(Tail(s)) ELSE s

RECURSIVE rstrip(_)
rstrip(s) ==
    IF s # <<>> /\ s[Len(s)] = " " THEN rstrip(SubSeq(s, 1, Len(s) - 1)) ELSE s

strip(s) == rstrip(lstrip(s))

\* Python's `sub in s` on strings
Contains(s, sub) ==
    \E i \in 1..(Len(s) - Len(sub) + 1) : SubSeq(s, i, i + Len(sub) - 1) = sub

Ord(c) ==
    CASE c = " " -> 32 [] c = "-" -> 45 [] c = "L" -> 76 [] c = "M" -> 77
      [] c = "T" -> 84 [] c = "_" -> 95 [] c = "a" -> 97 [] c = "b" -> 98
      [] c = "x" -> 120 [] c = "y" -> 121
      [] OTHER -> 48

RECURSIVE StrLess(_, _)
StrLess(s, t) ==
    IF t = <<>> THEN FALSE
    ELSE IF s = <<>> THEN TRUE
    ELSE IF Ord(Head(s)) # Ord(Head(t)) THEN Ord(Head(s)) < Ord(Head(t))
    ELSE StrLess(Tail(s), Tail(t))

RECURSIVE sorted(_)
sorted(S) ==
    IF S = {} THEN <<>>
    ELSE LET m == CHOOSE x \in S : \A y \in S \ {x} : StrLess(x, y)
         IN  <<m>> \o sorted(S \ {m})

Min(S) == CHOOSE x \in S : \A y \in S : x <= y

Range(f) == {f[i] : i \in DOMAIN f}

----------------------------------------------------------------------------
(* Worksheet <-> DataFrame: a blank cell is read as NaN, NaN is written as *)
(* a blank cell; every other value is carried over.                        *)

ReadCell(c) == IF c = <<>> THEN NaN ELSE c
WriteCell(v) == IF v = NaN THEN <<>> ELSE v

get_as_dataframe(ws) ==
    [i \in DOMAIN ws |-> [f \in DOMAIN ws[i] |-> ReadCell(ws[i][f])]]

set_with_dataframe(df) ==
    [i \in DOMAIN df |-> [f \in DOMAIN df[i] |-> WriteCell(df[i][f])]]

----------------------------------------------------------------------------
(* UID normalisation *)

create_uid(row) ==
    LET name == row.TeamPlayers1Name
        asmo == row.TeamPlayers1AsmoConnectId
    IN  IF notna(asmo) /\ strip(asmo) # <<>> THEN name \o Sep \o asmo ELSE name

\* df["PlayerUID"] = df.apply(create_uid, axis=1)
PlayerUID(df) == [i \in DOMAIN df |-> create_uid(df[i])]

\* rows of one groupby("TeamPlayers1Name") group, as row positions
GroupIdx(df, name) == {i \in DOMAIN df : df[i].TeamPlayers1Name = name}

\* with_asmo, as the positions of the rows holding those uids
WithAsmoIdx(df, name) ==
    {i \in GroupIdx(df, name) : Contains(PlayerUID(df)[i], Sep)}

\* without_asmo
WithoutAsmo(df, name) ==
    {PlayerUID(df)[i] : i \in {j \in GroupIdx(df, name) :
                                  ~Contains(PlayerUID(df)[j], Sep)}}

\* the dict `mapping`, as its set of (key, value) pairs.  unique() keeps the
\* order of first appearance, so with_asmo[0] is the uid of the first row of
\* the group whose uid contains the separator.
UidMapping(df) ==
    UNION {
        IF WithAsmoIdx(df, name) # {} /\ WithoutAsmo(df, name) # {}
        THEN {<<wo, PlayerUID(df)[Min(WithAsmoIdx(df, name))]>> :
                 wo \in WithoutAsmo(df, name)}
        ELSE {}
        : name \in {df[i].TeamPlayers1Name : i \in DOMAIN df}}

\* Series.replace(mapping) on one value
Replace(mapping, u) ==
    IF \E kv \in mapping : kv[1] = u
    THEN (CHOOSE kv \in mapping : kv[1] = u)[2]
    ELSE u

\* the column NormalizedUID of normalize_ids(df)
normalize_ids(df) ==
    [i \in DOMAIN df |-> Replace(UidMapping(df), PlayerUID(df)[i])]

----------------------------------------------------------------------------
(* League utilities *)

get_league_list(ws) ==
    sorted({strip(l) : l \in {x \in Range(ws) : strip(x) # <<>>}})

\* add_league on worksheet column ws: the return value and the column after
add_league_rawcheck(ws, name) ==
    IF name = <<>> THEN [ret |-> FALSE, ws |-> ws]
    ELSE IF name \in Range(get_league_list(ws)) THEN [ret |-> FALSE, ws |-> ws]
    ELSE [ret |-> TRUE, ws |-> Append(ws, strip(name))]

add_league(ws, name) ==
    LET n == strip(name)
    IN  IF n = <<>> THEN [ret |-> FALSE, ws |-> ws]
        ELSE IF n \in Range(get_league_list(ws)) THEN [ret |-> FALSE, ws |-> ws]
        ELSE [ret |-> TRUE, ws |-> Append(ws, n)]

----------------------------------------------------------------------------
(* Ingestion *)

\* the frame append_results builds from the upload (lines 90-106)
BatchFrame(df, league, tourney_name, tourney_date) ==
    [i \in DOMAIN df |->
        [League |-> league,
         Tournament |-> tourney_name,
         Date |-> tourney_date,
         NormalizedUID |-> normalize_ids(df)[i],
         TeamPlayers1Name |-> df[i].TeamPlayers1Name,
         TeamPlayers1AsmoConnectId |-> df[i].TeamPlayers1AsmoConnectId,
         Points |-> df[i].Points]]

\* DataFrame.append(df, ignore_index=True)
AppendFrame_overwrite(old, new) == new

AppendFrame(old, new) == old \o new

\* append_results run without interruption: the worksheet after the call
append_results_crossbatch(ws, df, league, tourney_name, tourney_date) ==
    LET hist == [i \in DOMAIN ws |->
                    [TeamPlayers1Name |-> ws[i].TeamPlayers1Name,
                     TeamPlayers1AsmoConnectId |->
                         ReadCell(ws[i].TeamPlayers1AsmoConnectId),
                     Points |-> ReadCell(ws[i].Points)]]
        all == normalize_ids(hist \o df)
        new == BatchFrame(df, league, tourney_name, tourney_date)
    IN  set_with_dataframe(AppendFrame(get_as_dataframe(ws),
            [i \in DOMAIN new |->
                [new[i] EXCEPT !.NormalizedUID = all[Len(ws) + i]]]))

append_results(ws, df, league, tourney_name, tourney_date) ==
    set_with_dataframe(
        AppendFrame(get_as_dataframe(ws),
                    BatchFrame(df, league, tourney_name, tourney_date)))

----------------------------------------------------------------------------
(* Standings *)

ParticipationBonus == 5

Digits == {"0", "1", "2", "3", "4", "5", "6", "7", "8", "9"}

DigitVal(c) ==
    CASE c = "0" -> 0 [] c = "1" -> 1 [] c = "2" -> 2 [] c = "3" -> 3
      [] c = "4" -> 4 [] c = "5" -> 5 [] c = "6" -> 6 [] c = "7" -> 7
      [] c = "8" -> 8 [] c = "9" -> 9

RECURSIVE ParseNat(_, _)
ParseNat(s, acc) ==
    IF s = <<>> THEN acc ELSE ParseNat(Tail(s), 10 * acc + DigitVal(Head(s)))

\* pd.to_numeric(x, errors="coerce") followed by fillna(0), on decimal
\* integer literals: anything else is coerced to NaN and then to 0
to_numeric(v) ==
    IF v # <<>> /\ \A i \in DOMAIN v : v[i] \in Digits
    THEN ParseNat(v, 0)
    ELSE 0

fillna(v) == IF v = NaN THEN <<>> ELSE v

load_results_for_league(ws, league) ==
    LET df == get_as_dataframe(ws)
        kept == SelectSeq(df, LAMBDA r : notna(r.League) /\ r.League = league)
    IN  [i \in DOMAIN kept |->
            [f \in DOMAIN kept[i] |->
                IF f = "Points" THEN to_numeric(fillna(kept[i][f]))
                ELSE fillna(kept[i][f])]]

RECURSIVE SumPoints(_, _)
SumPoints(df, idx) ==
    IF idx = {} THEN 0
    ELSE LET i == CHOOSE j \in idx : TRUE
         IN  df[i].Points + SumPoints(df, idx \ {i})

\* df.groupby("NormalizedUID").size() * 5
Participation(df, uid) ==
    ParticipationBonus * Cardinality({i \in DOMAIN df : df[i].NormalizedUID = uid})

\* totals after the join: one row per (NormalizedUID, TeamPlayers1Name) group
Totals(df) ==
    {[NormalizedUID |-> k[1],
      Player |-> k[2],
      TotalPoints |->
          SumPoints(df, {i \in DOMAIN df : df[i].NormalizedUID = k[1]
                                          /\ df[i].TeamPlayers1Name = k[2]})
          + Participation(df, k[1])]
     : k \in {<<df[i].NormalizedUID, df[i].TeamPlayers1Name>> : i \in DOMAIN df}}

\* sort_values("Total Points", ascending=False): quicksort, so rows of equal
\* total may come out in any order
SortValues(T) ==
    {s \in [1..Cardinality(T) -> T] :
        /\ \A i, j \in DOMAIN s : i # j => s[i] # s[j]
        /\ \A i, j \in DOMAIN s : i < j => s[i].TotalPoints >= s[j].TotalPoints}

\* rank(method=..., ascending=False) of row i of a frame sorted descending
RankDense(s, i) ==
    1 + Cardinality({s[j].TotalPoints : j \in {k \in DOMAIN s :
                                        s[k].TotalPoints > s[i].TotalPoints}})

RankMax(s, i) == 
    CHOOSE r \in DOMAIN s :
        /\ s[r].TotalPoints = s[i].TotalPoints
        /\ \A j \in DOMAIN s : s[j].TotalPoints = s[i].TotalPoints => j <= r

RankMin(s, i) == Min({j \in DOMAIN s : s[j].TotalPoints = s[i].TotalPoints})

\* the frames compute_standings may return (before the final column
\* selection, which drops NormalizedUID)
compute_standings(df) ==
    IF df = <<>> THEN {<<>>}
    ELSE {[i \in DOMAIN s |->
              [Rank |-> RankMin(s, i),
               Player |-> s[i].Player,
               TotalPoints |-> s[i].TotalPoints,
               NormalizedUID |-> s[i].NormalizedUID]]
          : s \in SortValues(Totals(df))}


----------------------------------------------------------------------------
(* Inputs *)

nameA == <<"a">>
nameB == <<"b">>
nameAX == <<"a", "_", "_", "x">>

\* rows an uploaded CSV may hold: plain and separator-bearing names; missing,
\* blank and present tokens; numeric, missing and non-numeric points
UploadRows ==
    {[TeamPlayers1Name |-> nameA, TeamPlayers1AsmoConnectId |-> NaN,
      Points |-> <<"1", "0">>],
     [TeamPlayers1Name |-> nameA, TeamPlayers1AsmoConnectId |-> <<"x">>,
      Points |-> <<"5">>],
     [TeamPlayers1Name |-> nameB, TeamPlayers1AsmoConnectId |-> <<" ">>,
      Points |-> <<"1", "0">>],
     [TeamPlayers1Name |-> nameAX, TeamPlayers1AsmoConnectId |-> NaN,
      Points |-> <<"x">>],
     [TeamPlayers1Name |-> nameAX, TeamPlayers1AsmoConnectId |-> <<"y">>,
      Points |-> NaN]}

\* the rows among them whose name does not contain the separator
PlainRows == {r \in UploadRows : ~Contains(r.TeamPlayers1Name, Sep)}

\* pd.read_csv(uploaded_file): the non-empty frames of at most n rows of pool
Uploads(pool, n) == UNION {[1..k -> pool] : k \in 1..n}

\* what the user may type as a league name
LeagueInputs ==
    {<<>>, <<" ">>, <<"L">>, <<" ", "L">>, <<"L", " ">>, <<"M">>, <<"M", " ">>,
     <<"L", "M">>, <<"L", " ", "M">>}

\* uploaded_file is None: there is no frame to read
NoFile == <<>>

\* what the user may type as a tournament name
TourneyInputs == {<<>>, <<" ">>, <<"T", " ">>}

\* one click on "Add to league": the file uploaded and the name typed (a
\* click that is refused is tried with at most one row uploaded)
Clicks(pool, n) ==
    {c \in (Uploads(pool, n) \cup {NoFile}) \X TourneyInputs :
        strip(c[2]) # <<>> \/ Len(c[1]) <= 1}

\* st.date_input(...).strftime("%Y-%m-%d")
DateToday == <<"2", "0", "2", "6", "-", "1", "1", "-", "0", "3">>

Sessions == {1, 2}

----------------------------------------------------------------------------
(* The script (lines 141-188).  Every click runs the script from the top,  *)
(* and a handler that changed a sheet ends in st.experimental_rerun(), so  *)
(* after each handler the standings shown are those of the selected league *)
(* computed from the sheet as the handler left it.                         *)

\* st.sidebar.selectbox over a changed option list: its first option
Selectbox(options) == IF options = <<>> THEN None ELSE options[1]

\* lines 158-164
Render(sel, ws) ==
    IF sel = None THEN {<<>>}
    ELSE compute_standings(load_results_for_league(ws, sel))

\* a workbook created by this run: both sheets hold their header only
Init ==
    /\ leagues = <<>>
    /\ results = <<>>
    /\ selected = None
    /\ standings = <<>>
    /\ last = [op |-> "start", arg |-> None, ret |-> None]
    /\ swapped = <<>>
    /\ pc = [p \in Sessions |-> "idle"]
    /\ local = [p \in Sessions |-> None]

\* a workbook in which the leagues "L" and "M" were created before (the state
\* AddLeagueClick(<<"M">>), AddLeagueClick(<<"L">>) lead to from Init), on
\* which ensure_sheet finds both sheets present
InitTwoLeagues ==
    /\ leagues = <<<<"M">>, <<"L">>>>
    /\ results = <<>>
    /\ selected = <<"L">>
    /\ standings = <<>>
    /\ last = [op |-> "add_league", arg |-> <<"L">>, ret |-> TRUE]
    /\ swapped = <<>>
    /\ pc = [p \in Sessions |-> "idle"]
    /\ local = [p \in Sessions |-> None]

\* "Add league" button
AddLeagueClick(name) ==
    LET r == add_league(leagues, name)
    IN  /\ Len(leagues) < MaxLeagues
        /\ leagues' = r.ws
        /\ last' = [op |-> "add_league", arg |-> name, ret |-> r.ret]
        /\ selected' = IF r.ret THEN Selectbox(get_league_list(r.ws))
                       ELSE selected
        /\ standings' \in Render(selected', results)
        /\ UNCHANGED <<results, swapped, pc, local>>

\* the user picks a league in the sidebar
SelectLeague(l) ==
    /\ l \in Range(get_league_list(leagues))
    /\ selected' = l
    /\ standings' \in Render(l, results)
    /\ UNCHANGED <<leagues, results, last, swapped, pc, local>>

\* "Add to league" button, the ingestion running alone
AddToLeague(upload, tourney) ==
    /\ Len(results) + Len(upload) <= MaxStored
    /\ IF selected = None \/ upload = NoFile \/ strip(tourney) = <<>>
       THEN /\ last' = [op |-> "add_to_league", arg |-> NoFile, ret |-> "error"]
            /\ UNCHANGED results
       ELSE /\ results' = append_results(results, upload, selected,
                                         strip(tourney), DateToday)
            /\ last' = [op |-> "append_results", arg |-> upload, ret |-> "ok"]
    /\ standings' \in Render(selected, results')
    /\ UNCHANGED <<leagues, selected, swapped, pc, local>>

Next ==
    \/ \E l \in Range(get_league_list(leagues)) : SelectLeague(l)
    \/ \E c \in Clicks(UploadRows, MaxBatchLen) : AddToLeague(c[1], c[2])

\* ingestion, one handler at a time, into a workbook with two leagues
Spec == InitTwoLeagues /\ [][Next]_vars

NextPlain ==
    \/ \E l \in Range(get_league_list(leagues)) : SelectLeague(l)
    \/ \E c \in Clicks(PlainRows, MaxBatchLen) : AddToLeague(c[1], c[2])

\* the same, no uploaded name containing the separator
SpecPlain == InitTwoLeagues /\ [][NextPlain]_vars

NextLeague == \E name \in LeagueInputs : AddLeagueClick(name)

\* league creation on a fresh workbook
SpecLeague == Init /\ [][NextLeague]_vars

----------------------------------------------------------------------------
(* Two batches ingested one after the other, in both orders *)

TourneyA == <<"T">>
TourneyB == <<"U">>

IngestBothOrders(A, B) ==
    /\ selected # None
    /\ Len(results) + Len(A) + Len(B) <= MaxStored
    /\ results' = append_results(
                      append_results(results, A, selected, TourneyA, DateToday),
                      B, selected, TourneyB, DateToday)
    /\ swapped' = append_results(
                      append_results(results, B, selected, TourneyB, DateToday),
                      A, selected, TourneyA, DateToday)
    /\ last' = [op |-> "append_results", arg |-> B, ret |-> "ok"]
    /\ standings' \in Render(selected, results')
    /\ UNCHANGED <<leagues, selected, pc, local>>

NextOrder ==
    \/ \E l \in Range(get_league_list(leagues)) : SelectLeague(l)
    \/ \E A, B \in Uploads(UploadRows, MaxBatchLen) : IngestBothOrders(A, B)

SpecOrder == InitTwoLeagues /\ [][NextOrder]_vars

----------------------------------------------------------------------------
(* Two sessions ingesting at the same time.  Line 107 is two requests to   *)
(* the sheet: get_as_dataframe reads it, and set_with_dataframe replaces   *)
(* it by what was read followed by the batch.                              *)

\* the frame a session writes back: what it read, followed by its batch
SavedFrame_reread(ws, loc) == AppendFrame(get_as_dataframe(ws), loc.df)

SavedFrame(ws, loc) == AppendFrame(loc.snap, loc.df)

\* lines 90-107 up to and including get_as_dataframe(results_ws)
LoadFrame(p, upload, league) ==
    /\ pc[p] = "idle"
    /\ local' = [local EXCEPT ![p] =
                    [snap |-> get_as_dataframe(results),
                     df |-> BatchFrame(upload, league, TourneyA, DateToday),
                     upload |-> upload]]
    /\ pc' = [pc EXCEPT ![p] = "loaded"]
    /\ UNCHANGED <<leagues, results, selected, standings, last, swapped>>

\* set_with_dataframe(results_ws, ...) and the rerun of that session's script
SaveFrame(p) ==
    /\ pc[p] = "loaded"
    /\ results' = set_with_dataframe(SavedFrame(results, local[p]))
    /\ pc' = [pc EXCEPT ![p] = "done"]
    /\ last' = [op |-> "append_results", arg |-> local[p].upload, ret |-> "ok"]
    /\ selected' = local[p].df[1].League
    /\ standings' \in Render(selected', results')
    /\ UNCHANGED <<leagues, swapped, local>>

NextRace ==
    \/ \E p \in Sessions, upload \in Uploads(UploadRows, MaxRaceLen),
          l \in Range(get_league_list(leagues)) : LoadFrame(p, upload, l)
    \/ \E p \in Sessions : SaveFrame(p)

SpecRace == InitTwoLeagues /\ [][NextRace]_vars

----------------------------------------------------------------------------
(* Vocabulary of the properties *)

\* a row has a secondary token: the value is present and not blank
TokenPresent(v) == v # NaN /\ v # <<>> /\ \E i \in DOMAIN v : v[i] # " "

\* the rows the last ingestion stored, in batch order
StoredBatch == SubSeq(results, Len(results) - Len(last.arg) + 1, Len(results))

\* the rows of the standings of a league, whatever the order of equal totals
PerPlayer(ws, league) ==
    UNION {Range(s) : s \in compute_standings(load_results_for_league(ws, league))}

\* the points a stored cell counts for: its decimal value, 0 when it has none
PointsOf(cell) ==
    CASE cell = <<"5">> -> 5 [] cell = <<"1", "0">> -> 10 [] OTHER -> 0

RECURSIVE SumOf(_, _)
SumOf(ws, idx) ==
    IF idx = {} THEN 0
    ELSE LET i == CHOOSE j \in idx : TRUE
         IN  PointsOf(ws[i].Points) + SumOf(ws, idx \ {i})

RowsOf(ws, league, uid) ==
    {i \in DOMAIN ws : ws[i].League = league /\ ws[i].NormalizedUID = uid}

----------------------------------------------------------------------------
(* C1: within one batch, every name that has a row with a token and a row  *)
(* without one has all its token-less rows stored under the PlayerUID      *)
(* (name, "__", token) of the first token-bearing row of that name.        *)

C1_TokenlessJoinsFirstToken ==
    last.op = "append_results" =>
        LET df == last.arg
        IN  \A i \in DOMAIN df :
                LET name == df[i].TeamPlayers1Name
                    with == {j \in DOMAIN df :
                                /\ df[j].TeamPlayers1Name = name
                                /\ TokenPresent(df[j].TeamPlayers1AsmoConnectId)}
                IN  (~TokenPresent(df[i].TeamPlayers1AsmoConnectId) /\ with # {})
                    => StoredBatch[i].NormalizedUID =
                          name \o <<"_", "_">>
                               \o df[Min(with)].TeamPlayers1AsmoConnectId

(* C2: identity invariant of the stored rows: a name that has a stored row *)
(* under a token-bearing NormalizedUID has no stored row under the bare    *)
(* name, whichever batches the rows came in.                               *)

C2_TokenlessRowsCollapse ==
    \A i, j \in DOMAIN results :
        (/\ results[i].TeamPlayers1Name = results[j].TeamPlayers1Name
         /\ results[i].NormalizedUID # results[i].TeamPlayers1Name)
        => results[j].NormalizedUID # results[j].TeamPlayers1Name

(* C3: the standings of the selected league hold exactly one row per       *)
(* NormalizedUID of the league's stored rows, with Total Points = sum of   *)
(* that UID's points (0 for a missing or non-numeric value) + 5 per row.   *)

C3_OneRowPerUidWithBonus ==
    selected # None =>
        /\ \A k \in DOMAIN standings :
              RowsOf(results, selected, standings[k].NormalizedUID) # {}
        /\ \A i \in DOMAIN results :
              results[i].League = selected =>
                LET uid == results[i].NormalizedUID
                    out == {k \in DOMAIN standings :
                               standings[k].NormalizedUID = uid}
                IN  /\ Cardinality(out) = 1
                    /\ \A k \in out :
                          standings[k].TotalPoints =
                              SumOf(results, RowsOf(results, selected, uid))
                              + 5 * Cardinality(RowsOf(results, selected, uid))

\* what holds of the standings for every name: one row per (NormalizedUID,
\* name) pair, its points summed over the pair, its bonus over the UID
C3_OneRowPerUidAndName ==
    selected # None =>
        \A i \in DOMAIN results :
            results[i].League = selected =>
                LET uid == results[i].NormalizedUID
                    named == {j \in RowsOf(results, selected, uid) :
                                 results[j].TeamPlayers1Name =
                                     results[i].TeamPlayers1Name}
                    out == {k \in DOMAIN standings :
                               /\ standings[k].NormalizedUID = uid
                               /\ standings[k].Player = results[i].TeamPlayers1Name}
                IN  /\ Cardinality(out) = 1
                    /\ \A k \in out :
                          standings[k].TotalPoints =
                              SumOf(results, named)
                              + 5 * Cardinality(RowsOf(results, selected, uid))

(* C4: competition ranks: a row's Rank is 1 + the number of rows with a    *)
(* strictly greater total; rows are in non-increasing total order, hence   *)
(* in non-decreasing rank order.                                           *)

C4_CompetitionRank ==
    /\ \A i \in DOMAIN standings :
          standings[i].Rank =
              1 + Cardinality({j \in DOMAIN standings :
                      standings[j].TotalPoints > standings[i].TotalPoints})
    /\ \A i, j \in DOMAIN standings :
          i < j => /\ standings[i].TotalPoints >= standings[j].TotalPoints
                   /\ standings[i].Rank <= standings[j].Rank

\* two rows tied in front of a third: ranks 1, 1, 3
C4_Witness ==
    /\ Len(standings) = 3
    /\ standings[1].TotalPoints = standings[2].TotalPoints
    /\ standings[2].TotalPoints > standings[3].TotalPoints
    /\ standings[3].Rank = 3

GreaterTotals(i) ==
    {standings[j].TotalPoints : j \in {k \in DOMAIN standings :
                       standings[k].TotalPoints > standings[i].TotalPoints}}

(* C5: a row's Rank is 1 + the number of distinct totals strictly greater  *)
(* than its own.                                                           *)

C5_DenseRank ==
    \A i \in DOMAIN standings :
        standings[i].Rank = 1 + Cardinality(GreaterTotals(i))

RECURSIVE HoldersOf(_)
HoldersOf(T) ==
    IF T = {} THEN 0
    ELSE LET t == CHOOSE x \in T : TRUE
         IN  Cardinality({k \in DOMAIN standings : standings[k].TotalPoints = t})
             + HoldersOf(T \ {t})

\* C5, amended: a row's Rank is 1 + the number of distinct greater totals,
\* each counted once per row holding it
C5_RankCountsHolders ==
    \A i \in DOMAIN standings :
        standings[i].Rank = 1 + HoldersOf(GreaterTotals(i))

\* a row below a tie: one greater total, held by two rows
C5_Witness ==
    \E i \in DOMAIN standings :
        /\ Cardinality(GreaterTotals(i)) = 1
        /\ HoldersOf(GreaterTotals(i)) = 2
        /\ standings[i].Rank = 3

TokenOrNone(v) == IF TokenPresent(v) THEN v ELSE None

(* C10: a row's PlayerUID contains "__" exactly when the row has a token,  *)
(* and rows that differ in (name, token or none) differ in PlayerUID.      *)

C10_UidTellsTokenAndIsInjective ==
    last.op = "append_results" =>
        LET df == last.arg
        IN  /\ \A i \in DOMAIN df :
                  Contains(PlayerUID(df)[i], <<"_", "_">>)
                      <=> TokenPresent(df[i].TeamPlayers1AsmoConnectId)
            /\ \A i, j \in DOMAIN df :
                  (\/ df[i].TeamPlayers1Name # df[j].TeamPlayers1Name
                   \/ TokenOrNone(df[i].TeamPlayers1AsmoConnectId)
                          # TokenOrNone(df[j].TeamPlayers1AsmoConnectId))
                  => PlayerUID(df)[i] # PlayerUID(df)[j]

(* C6: two batches ingested into the same league from the same stored      *)
(* table give the same standings rows (NormalizedUID, player, total and    *)
(* rank) in either order, in every league.                                 *)

C6_BatchOrderIrrelevant ==
    \A l \in Range(get_league_list(leagues)) :
        PerPlayer(results, l) = PerPlayer(swapped, l)

\* the two orders stored different tables, and a name ended up under two
\* NormalizedUIDs because its rows came in different batches
C6_Witness ==
    /\ results # swapped
    /\ \E i, j \in DOMAIN results :
          /\ results[i].League = results[j].League
          /\ results[i].TeamPlayers1Name = results[j].TeamPlayers1Name
          /\ results[i].Tournament # results[j].Tournament
          /\ results[i].NormalizedUID # results[j].NormalizedUID

Listed(ws, n) == \E i \in DOMAIN ws : strip(ws[i]) = n

(* C7: add_league returns False and leaves the sheet alone for a blank     *)
(* name and for a name whose stripped form is already listed; otherwise it *)
(* appends the stripped name and returns True.  So the sheet never holds a *)
(* blank or a repeated entry, and get_league_list lists each entry once.   *)

C7_AddLeagueValidates ==
    /\ [][LET n == strip(last'.arg)
          IN  IF n = <<>> \/ Listed(leagues, n)
              THEN last'.ret = FALSE /\ leagues' = leagues
              ELSE last'.ret = TRUE /\ leagues' = Append(leagues, n)]_vars
    /\ [](/\ \A i \in DOMAIN leagues : strip(leagues[i]) # <<>>
          /\ \A i, j \in DOMAIN leagues :
                i # j => strip(leagues[i]) # strip(leagues[j])
          /\ Len(get_league_list(leagues)) = Len(leagues)
          /\ \A i \in DOMAIN leagues :
                leagues[i] \in Range(get_league_list(leagues)))

\* a name refused because its stripped form is already listed
C7_Witness ==
    /\ last.op = "add_league"
    /\ last.ret = FALSE
    /\ last.arg # strip(last.arg)
    /\ Listed(leagues, strip(last.arg))
    /\ Len(leagues) >= 2

\* a cell holds an uploaded value: the value itself, blank for a missing one
StoredAs(cell, v) == IF v = NaN THEN cell = <<>> ELSE cell = v

(* C8: an ingestion that runs alone leaves the table equal to what it was, *)
(* followed by one row per row of the batch, in batch order; nothing else  *)
(* changes the table, and the standings of the other leagues stay as they  *)
(* were.                                                                   *)

C8_AppendOnly ==
    [][(\/ results' # results
        \/ (last'.op = "append_results" /\ last.op # "append_results"))
       => /\ last'.op = "append_results"
          /\ LET df == last'.arg
                 n == Len(results)
             IN  /\ Len(results') = n + Len(df)
                 /\ SubSeq(results', 1, n) = results
                 /\ \A i \in DOMAIN df :
                       /\ results'[n + i].League = selected
                       /\ results'[n + i].TeamPlayers1Name
                              = df[i].TeamPlayers1Name
                       /\ StoredAs(results'[n + i].TeamPlayers1AsmoConnectId,
                                   df[i].TeamPlayers1AsmoConnectId)
                       /\ StoredAs(results'[n + i].Points, df[i].Points)
          /\ \A l \in Range(get_league_list(leagues)) \ {selected} :
                PerPlayer(results', l) = PerPlayer(results, l)]_vars

\* an ingestion into a table that already held rows of the other league
C8_Witness ==
    /\ last.op = "append_results"
    /\ Len(results) > Len(last.arg)
    /\ \E i \in 1..(Len(results) - Len(last.arg)) : results[i].League # selected

BothDone == \A p \in Sessions : pc[p] = "done"

(* C9: two ingestions that both read the table before either wrote it end  *)
(* with the table holding what was read followed by the rows of one batch  *)
(* only: the rows of the other batch are lost.                             *)

C9_LostUpdate ==
    (BothDone /\ local[1].snap = local[2].snap)
    => /\ Len(results) < Len(local[1].snap) + Len(local[1].df) + Len(local[2].df)
       /\ \E p \in Sessions :
             results = set_with_dataframe(local[p].snap \o local[p].df)

\* both calls completed after reading the same table, with different batches
C9_Witness ==
    /\ BothDone
    /\ local[1].snap = local[2].snap
    /\ local[1].df # local[2].df
    /\ \E p \in Sessions :
          \A i \in DOMAIN results :
             results[i].TeamPlayers1Name # local[p].df[1].TeamPlayers1Name

====
